---------------------------- MODULE Spec2Model ----------------------------
(***************************************************************************)
(* Model of the ThreeWood golf ball (src/src/ball.js, class GolfBall) and  *)
(* of the terrain queries it consumes (TerrainGenerator).                  *)
(*                                                                         *)
(* Numbers are fixed point integers:                                       *)
(*   lengths          millimetres                (0.05 m   = 50)           *)
(*   velocities       millimetres per second     (35 m/s   = 35000)        *)
(*   time             microseconds               (0.033 s  = 33000)        *)
(*   factors, spins, unit vectors, Math.random() per mille (1.0 = 1000)    *)
(*   angles           milliradians                                         *)
(***************************************************************************)
EXTENDS Integers, Sequences, FiniteSets, TLC

VARIABLES
  terrain,            \* which height map the TerrainGenerator holds
  surface,            \* the material the terrain reports
  position, previousPosition, velocity,
  spin, sidespin,
  isResting, inAir, inWaterHazard,
  stationaryFrames, lastSafePosition,
  rnd,                \* the value Math.random() returns during this shot
  frame,              \* the frame time the game loop passes during this shot
  shots,              \* accepted hits since the last external reset
  tick,               \* parity of the frames simulated since the last shot
  op,                 \* the last operation: name, arguments, return value
  game,               \* the Game that owns the ball: state, strokes, score,
                      \* power meter and pending timers
  trace               \* ball state at entry of the last update and after
                      \* each of its sub-steps

vars == <<terrain, surface, position, previousPosition, velocity, spin,
          sidespin, isResting, inAir, inWaterHazard, stationaryFrames,
          lastSafePosition, rnd, frame, shots, tick, op, game, trace>>

---------------------------------------------------------------------------
(* Bounds of the model *)

MaxShots == 1            \* accepted hits between two external resets
Width == 100000          \* terrain.options.width  (mm)
SegmentsW == 10          \* terrain.options.segmentsW
StepHeight == 30         \* height of the raised cells of the "step" map
DropHeight == 1000       \* depth of the lowered cells of the "step" map
HighStart == 20000       \* height of the elevated reset position

---------------------------------------------------------------------------
(* Options of the ball, constructor of GolfBall *)

radius == 50
gravity == 9810              \* magnitude of options.gravity (-9.81)
spinDecay == 970
maxVelocity == 35000
stopThreshold == 100
positionPrecision == 10
maxSubsteps == 3
tunnelThreshold == 3000
safeOffset == 50
minBounceVelocity == 300
slopeEnergyLoss == 200
spinTransfer == 700
randomBounceVariation == 50
velocityRestitutionFactor == 15
maxSpinRate == 5000
frictionVariation == 50
slopeGravityFactor == 800
rollingFrictionMultiplier == 500
rollingInertia == 600
minimumStopFrames == 5
mass == 45
clearance == 10              \* the literal 0.01 added when snapping on terrain
hitLift == 20                \* the literal 0.02 added to position.y in hit
maxSpeed == 30000            \* const maxSpeed in hit
maxDt == 33000               \* the literal 0.033 in update
minY == 0 - 10000            \* const minY in checkOutOfBounds

---------------------------------------------------------------------------
(* Arithmetic *)

Abs(a) == IF a < 0 THEN 0 - a ELSE a
Min(a, b) == IF a < b THEN a ELSE b
Max(a, b) == IF a > b THEN a ELSE b

\* a / b truncated toward zero (b > 0)
Quot(a, b) == IF a >= 0 THEN a \div b ELSE 0 - ((0 - a) \div b)

\* a * n / d, truncated toward zero
MulDiv(a, n, d) == Quot(a * n, d)

\* smallest k with k * b >= a, for a >= 0 and b > 0 (Math.ceil(a / b))
CeilDiv(a, b) == (a + b - 1) \div b

RECURSIVE SqrtSearch(_, _, _)
SqrtSearch(n, lo, hi) ==
  IF lo >= hi THEN lo
  ELSE LET mid == (lo + hi + 1) \div 2
       IN  IF mid * mid <= n THEN SqrtSearch(n, mid, hi)
           ELSE SqrtSearch(n, lo, mid - 1)

\* floor of the square root (Math.sqrt)
Sqrt(n) == IF n <= 0 THEN 0 ELSE SqrtSearch(n, 0, 46340)

\* Math.round(v / positionPrecision) * positionPrecision
RoundTo(v, p) == ((2 * v + p) \div (2 * p)) * p

---------------------------------------------------------------------------
(* THREE.Vector3 *)

Vec(x, y, z) == [x |-> x, y |-> y, z |-> z]
Zero == Vec(0, 0, 0)
VAdd(a, b) == Vec(a.x + b.x, a.y + b.y, a.z + b.z)
VSub(a, b) == Vec(a.x - b.x, a.y - b.y, a.z - b.z)
\* v * n / d
VScale(v, n, d) == Vec(MulDiv(v.x, n, d), MulDiv(v.y, n, d), MulDiv(v.z, n, d))
LengthSq(v) == v.x * v.x + v.y * v.y + v.z * v.z
Length(v) == Sqrt(LengthSq(v))
\* the dot product with a unit vector n (per mille)
DotUnit(v, n) == Quot(v.x * n.x + v.y * n.y + v.z * n.z, 1000)
\* Vector3.normalize: a unit vector in per mille; (0,0,0) stays (0,0,0)
Normalize(v) ==
  LET len == Length(v)
  IN  IF len = 0 THEN Zero
      ELSE Vec(Quot(v.x * 1000, len), Quot(v.y * 1000, len), Quot(v.z * 1000, len))

---------------------------------------------------------------------------
(* TerrainGenerator: the height map, the queries of the ball, the mesh *)

Terrains == {"flat", "step"}
Materials == {"green", "fairway", "rough", "bunker", "cart_path", "water"}

\* the cell of the "step" map that holds x = 0 and the tee: the cells before
\* it are raised by StepHeight, the cells after it lowered by DropHeight
MidCell == SegmentsW \div 2

\* this.heightMap[xIndex][zIndex]; the maps of the model do not vary in z
heightMap(t, i) ==
  IF t = "flat" THEN 0
  ELSE IF i < MidCell THEN StepHeight
  ELSE IF i < MidCell + 1 THEN 0
  ELSE 0 - DropHeight

\* Math.floor((x + width / 2) / width * segmentsW)
CellIndex(x) == ((2 * x + Width) * SegmentsW) \div (2 * Width)

\* getNoiseHeight, the fallback outside the height map
getNoiseHeight(x, z) == 0

getHeightAtPosition(t, x, z) ==
  LET xIndex == CellIndex(x)
      zIndex == CellIndex(z)
  IN  IF xIndex >= 0 /\ xIndex <= SegmentsW /\ zIndex >= 0 /\ zIndex <= SegmentsW
      THEN heightMap(t, xIndex)
      ELSE getNoiseHeight(x, z)

\* central differences of the height map, delta = 0.1
getNormalAtPosition(t, x, z) ==
  LET delta == 100
      hL == getHeightAtPosition(t, x - delta, z)
      hR == getHeightAtPosition(t, x + delta, z)
      hD == getHeightAtPosition(t, x, z - delta)
      hU == getHeightAtPosition(t, x, z + delta)
  IN  Normalize(Vec(hL - hR, 2 * delta, hD - hU))

\* x of the i-th column of vertices of the PlaneGeometry
VertexX(i) == Quot((2 * i - SegmentsW) * Width, 2 * SegmentsW)

NoHit == [hit |-> FALSE]

\* The ray against the strip of triangles between vertex columns i and i+1:
\* the strip lies in the plane through (VertexX(i), heightMap[i]) and
\* (VertexX(i+1), heightMap[i+1]); only its upper (front) side is hit.
RayStrip(t, i, start, dir, dist) ==
  LET x0 == VertexX(i)
      cell == VertexX(i + 1) - x0
      dh == heightMap(t, i + 1) - heightMap(t, i)
      g0 == start.y - (heightMap(t, i) + Quot(dh * (start.x - x0), cell))
      rate == dir.y - Quot(dh * dir.x, cell)
      along == Quot(g0 * 1000, 0 - rate)
      point == VAdd(start, VScale(dir, along, 1000))
  IN  IF g0 >= 0 /\ rate < 0 /\ along <= dist
         /\ point.x >= x0 /\ point.x <= x0 + cell
         /\ 2 * Abs(point.z) <= Width
      THEN [hit |-> TRUE, distance |-> along, point |-> point,
            normal |-> Normalize(Vec(0 - dh, cell, 0))]
      ELSE NoHit

\* the nearer of two hits of a ray
nearestHit(a, b) ==
  IF a.hit /\ b.hit THEN (IF b.distance < a.distance THEN b ELSE a)
  ELSE IF a.hit THEN a
  ELSE b

\* raycaster.intersectObject(this.terrain.terrainMesh)[0]: the nearest hit of
\* the ray start -> dir with far = dist, among the strips below its two ends
intersectObject(t, start, dir, dist) ==
  LET clip(i) == Max(0, Min(SegmentsW - 1, i))
  IN  nearestHit(
        RayStrip(t, clip(CellIndex(start.x)), start, dir, dist),
        RayStrip(t, clip(CellIndex(start.x + MulDiv(dir.x, dist, 1000))),
                 start, dir, dist))

\* terrain.teePosition
teePosition(t) == Vec(0, getHeightAtPosition(t, 0, 0), 0)

\* terrain.getSurfaceTypeAtPosition(x, z): the flat map is of one material;
\* on the step map the tee box is green, cells at or below the water level
\* are water, cells at or below the bunker level are bunker, the rest rough
getSurfaceTypeAtPosition(t, s, x, z) ==
  LET y == getHeightAtPosition(t, x, z)
      tee == teePosition(t)
      dx == Abs(x - tee.x)
      dz == Abs(z - tee.z)
      nearTee == dx < 5000 /\ dz < 5000 /\ dx * dx + dz * dz < 25000000
  IN  IF t = "flat" THEN s
      ELSE IF nearTee THEN "green"
      ELSE IF y <= 0 - 800 THEN "water"
      ELSE IF y <= 0 - 500 THEN "bunker"
      ELSE s

\* getSurfaceType()
getSurfaceType(b, t, s) == getSurfaceTypeAtPosition(t, s, b.position.x, b.position.z)

\* surfaceEnergyLoss[surfaceType] || surfaceEnergyLoss.default
getEnergyLoss(surfaceType) ==
  CASE surfaceType = "green" -> 250
    [] surfaceType = "fairway" -> 350
    [] surfaceType = "rough" -> 650
    [] surfaceType = "bunker" -> 850
    [] surfaceType = "cart_path" -> 80
    [] OTHER -> 500

\* spinFactors[surfaceType] || spinFactors.default
spinFactors(surfaceType) ==
  CASE surfaceType = "green" -> 1300
    [] surfaceType = "fairway" -> 1000
    [] surfaceType = "rough" -> 600
    [] surfaceType = "bunker" -> 300
    [] surfaceType = "cart_path" -> 1500
    [] OTHER -> 1000

\* frictionMap[surfaceType] || frictionMap.default
getSurfaceFrictionFactors(surfaceType) ==
  CASE surfaceType = "green" -> [base |-> 800, rolling |-> 100, lowSpeed |-> 1300]
    [] surfaceType = "fairway" -> [base |-> 1000, rolling |-> 150, lowSpeed |-> 1600]
    [] surfaceType = "rough" -> [base |-> 2800, rolling |-> 350, lowSpeed |-> 2200]
    [] surfaceType = "bunker" -> [base |-> 5000, rolling |-> 600, lowSpeed |-> 3500]
    [] surfaceType = "cart_path" -> [base |-> 500, rolling |-> 40, lowSpeed |-> 900]
    [] OTHER -> [base |-> 1000, rolling |-> 150, lowSpeed |-> 1500]

---------------------------------------------------------------------------
(* Math *)

\* Math.acos(d) for 0 <= d <= 1, in milliradians:
\* sqrt(1 - d) * (1.57073 - 0.21211 d + 0.07426 d^2 - 0.01873 d^3)
Acos(d) ==
  LET c == Max(0, Min(1000, d))
      root == Sqrt((1000 - c) * 1000)
      poly == 15707 - Quot(2121 * c, 1000) + Quot(743 * c * c, 1000000)
                    - Quot(187 * Quot(c * c, 1000) * c, 1000000)
  IN  Quot(root * poly, 10000)

\* Math.sin and Math.cos of an angle given in whole degrees, per mille
SinDeg(d) ==
  CASE d = 0 -> 0
    [] d = 2 -> 35
    [] d = 10 -> 174
    [] d = 30 -> 500
    [] d = 45 -> 707
    [] d = 60 -> 866

CosDeg(d) ==
  CASE d = 0 -> 1000
    [] d = 2 -> 999
    [] d = 10 -> 985
    [] d = 30 -> 866
    [] d = 45 -> 707
    [] d = 60 -> 500

\* degrees * Math.PI / 180, in milliradians
Radians(d) == Quot(d * 17453, 1000)

\* 1 + (Math.random() * 2 - 1) * variation
RandomFactor(r, variation) == 1000 + Quot((2 * r - 1000) * variation, 1000)

---------------------------------------------------------------------------
(* GolfBall: the state the methods work on *)

NoBounce == [kind |-> "none", before |-> 0, after |-> 0,
             velocity |-> [x |-> 0, y |-> 0, z |-> 0],
             normal |-> [x |-> 0, y |-> 0, z |-> 0],
             reflection |-> [x |-> 0, y |-> 0, z |-> 0],
             left |-> [x |-> 0, y |-> 0, z |-> 0],
             airborne |-> FALSE,
             at |-> [x |-> 0, y |-> 0, z |-> 0]]
NoRecovery == [done |-> FALSE]
NoPosition == [none |-> TRUE]

Ball ==
  [position |-> position, previousPosition |-> previousPosition,
   velocity |-> velocity, spin |-> spin, sidespin |-> sidespin,
   isResting |-> isResting, inAir |-> inAir, inWaterHazard |-> inWaterHazard,
   stationaryFrames |-> stationaryFrames,
   lastSafePosition |-> lastSafePosition,
   bounce |-> NoBounce,      \* what the last handleBounce of the sub-step did
   recovery |-> NoRecovery]  \* what checkOutOfBounds of the sub-step did

WithY(v, y) == Vec(v.x, y, v.z)

\* reset(position) without "this.inAir = false"
reset_keepsInAir(b, t, p) ==
  LET placed ==
        IF p # NoPosition
        THEN LET terrainHeight == getHeightAtPosition(t, p.x, p.z)
             IN  IF p.y < terrainHeight + radius + clearance
                 THEN WithY(p, terrainHeight + radius + clearance)
                 ELSE p
        ELSE LET tee == teePosition(t)
             IN  WithY(tee, tee.y + radius + clearance)
  IN  [b EXCEPT !.position = placed,
                !.lastSafePosition = placed,
                !.velocity = Zero,
                !.spin = 0,
                !.sidespin = 0,
                !.isResting = TRUE,
                !.inWaterHazard = FALSE,
                !.stationaryFrames = 0]

\* reset(position) without the "not embedded in terrain" correction
reset_unclamped(b, t, p) ==
  LET placed ==
        IF p # NoPosition THEN p
        ELSE LET tee == teePosition(t)
             IN  WithY(tee, tee.y + radius + clearance)
  IN  [b EXCEPT !.position = placed,
                !.lastSafePosition = placed,
                !.velocity = Zero,
                !.spin = 0,
                !.sidespin = 0,
                !.isResting = TRUE,
                !.inAir = FALSE,
                !.inWaterHazard = FALSE,
                !.stationaryFrames = 0]

\* reset(position)
reset(b, t, p) ==
  LET placed ==
        IF p # NoPosition
        THEN LET terrainHeight == getHeightAtPosition(t, p.x, p.z)
             IN  IF p.y < terrainHeight + radius + clearance
                 THEN WithY(p, terrainHeight + radius + clearance)
                 ELSE p
        ELSE LET tee == teePosition(t)
             IN  WithY(tee, tee.y + radius + clearance)
  IN  [b EXCEPT !.position = placed,
                !.lastSafePosition = placed,
                !.velocity = Zero,
                !.spin = 0,
                !.sidespin = 0,
                !.isResting = TRUE,
                !.inAir = FALSE,
                !.inWaterHazard = FALSE,
                !.stationaryFrames = 0]

\* handleWaterHazard()
handleWaterHazard(b, t) ==
  IF b.inWaterHazard THEN b
  ELSE reset([b EXCEPT !.inWaterHazard = TRUE], t, b.lastSafePosition)

\* The body of hit after its first line; r1 and r2 are the two Math.random()
\* draws.  Returns the new state and the return value.
strike(b, t, power, direction, loft, sidespinIn, r1, r2) ==
    LET terrainHeight == getHeightAtPosition(t, b.position.x, b.position.z)
        fixed == IF b.position.y - radius < terrainHeight
                 THEN WithY(b.position, terrainHeight + radius + clearance)
                 ELSE b.position
        speed == Quot(maxSpeed * power, 100)
        normalizedDir == Normalize(direction)
        loftDeg == IF loft = 0 THEN 10 ELSE loft          \* (loft || 10)
        loftRadians == Radians(loftDeg)
        horizontalFactor == CosDeg(loftDeg)
        lofted == Vec(MulDiv(normalizedDir.x, horizontalFactor, 1000),
                      SinDeg(loftDeg),
                      MulDiv(normalizedDir.z, horizontalFactor, 1000))
        spinIntensity == Min(1000, Quot(power * 1000, 70))
        rawSpin == 0 - MulDiv(loftRadians * 6, spinIntensity, 1000)
        variedSpin == MulDiv(rawSpin, 900 + Quot(r1 * 200, 1000), 1000)
        rawSide == MulDiv(MulDiv(sidespinIn, spinIntensity, 1000), maxSpinRate, 1000)
        variedSide == MulDiv(rawSide, 950 + Quot(r2 * 100, 1000), 1000)
    IN  [ball |-> [b EXCEPT
                     !.lastSafePosition = fixed,
                     !.previousPosition = fixed,
                     !.velocity = VScale(lofted, speed, 1000),
                     !.spin = Max(0 - maxSpinRate, Min(0, variedSpin)),
                     !.sidespin = variedSide,
                     !.isResting = FALSE,
                     !.inAir = TRUE,
                     !.inWaterHazard = FALSE,
                     !.stationaryFrames = 0,
                     !.position = WithY(fixed, fixed.y + hitLift)],
         ret |-> TRUE]

\* hit without "if (!this.isResting) return false"
hit_unguarded(b, t, power, direction, loft, sidespinIn, r1, r2) ==
  strike(b, t, power, direction, loft, sidespinIn, r1, r2)

\* hit without "this.isResting = false"
hit_keepsResting(b, t, power, direction, loft, sidespinIn, r1, r2) ==
  IF ~b.isResting THEN [ball |-> b, ret |-> FALSE]
  ELSE LET h == strike(b, t, power, direction, loft, sidespinIn, r1, r2)
       IN  [h EXCEPT !.ball.isResting = TRUE]

\* hit(power, direction, loft, sidespin)
hit(b, t, power, direction, loft, sidespinIn, r1, r2) ==
  IF ~b.isResting THEN [ball |-> b, ret |-> FALSE]
  ELSE strike(b, t, power, direction, loft, sidespinIn, r1, r2)

---------------------------------------------------------------------------
(* GolfBall: contact with the terrain *)

\* handleConversionToRolling(normal) without "this.inAir = false"
handleConversionToRolling_keepsInAir(b, t, normal) ==
  LET flat == WithY(b.velocity, 0)
      horizontalSpeed == Length(flat)
      normalComponent == VScale(normal, DotUnit(flat, normal), 1000)
      rolled == IF horizontalSpeed > 100
                THEN VScale(VSub(flat, normalComponent), 850, 1000)
                ELSE flat
      terrainHeight == getHeightAtPosition(t, b.position.x, b.position.z)
      placed == WithY(b.position, terrainHeight + radius + clearance)
  IN  [b EXCEPT !.velocity = rolled,
                !.position = placed,
                !.lastSafePosition = placed]

\* handleConversionToRolling(normal)
handleConversionToRolling(b, t, normal) ==
  LET flat == WithY(b.velocity, 0)
      horizontalSpeed == Length(flat)
      normalComponent == VScale(normal, DotUnit(flat, normal), 1000)
      rolled == IF horizontalSpeed > 100
                THEN VScale(VSub(flat, normalComponent), 850, 1000)
                ELSE flat
      terrainHeight == getHeightAtPosition(t, b.position.x, b.position.z)
      placed == WithY(b.position, terrainHeight + radius + clearance)
  IN  [b EXCEPT !.velocity = rolled,
                !.inAir = FALSE,
                !.position = placed,
                !.lastSafePosition = placed]

\* updateSpinFromImpact: "newSpin" before the surface factor is applied
generatedSpin(velocityUnit, impactAngle) ==
  LET horizontalSpeed == Length(WithY(velocityUnit, 0))
  IN  IF impactAngle > 1570
      THEN LET backspinFactor == Min(1000, Quot((impactAngle - 1570) * 1000, 1570))
           IN  0 - MulDiv(MulDiv(horizontalSpeed, backspinFactor, 1000), spinTransfer, 1000)
      ELSE IF impactAngle < 942
      THEN LET topspinFactor == 1000 - Quot(impactAngle * 1000, 942)
           IN  MulDiv(MulDiv(horizontalSpeed, topspinFactor, 1000), spinTransfer, 1000)
      ELSE 0

\* updateSpinFromImpact(velocity, normal, impactAngle, surfaceType): the new
\* value of this.spin.  handleBounce passes preBounceVelocity after it has
\* been normalized in place, so its velocity argument is the unit vector.
updateSpinFromImpact(b, velocityUnit, normal, impactAngle, surfaceType) ==
  LET surfaceSpinFactor == spinFactors(surfaceType)
      existingSpinContribution == MulDiv(b.spin, 300, 1000)
  IN  Max(0 - maxSpinRate,
          Min(maxSpinRate,
              MulDiv(generatedSpin(velocityUnit, impactAngle), surfaceSpinFactor, 1000)
              + existingSpinContribution))

\* applyPostBounceStabilization()
applyPostBounceStabilization(b) ==
  LET still == LengthSq(b.velocity) < 10000
  IN  [b EXCEPT !.velocity = IF still THEN Zero ELSE @,
                !.inAir = IF still THEN FALSE ELSE @,
                !.lastSafePosition = b.position]

\* What handleBounce did, for the properties that speak about one contact:
\* the branch taken and the speed before and after it.
Noted(b, kind, before) ==
  [b EXCEPT !.bounce = [NoBounce EXCEPT !.kind = kind, !.before = before,
                                        !.after = Length(b.velocity),
                                        !.left = b.velocity,
                                        !.airborne = b.inAir]]

\* handleBounce, skimming impact: the normal component of the velocity is
\* turned back at 30%, the tangential one kept at 85%, and velocity.y is at
\* least 0.05
skimVelocity(v, normal) ==
  LET normalComponent == VScale(normal, DotUnit(v, normal), 1000)
      combined == VAdd(VScale(VSub(v, normalComponent), 850, 1000),
                       VScale(normalComponent, 0 - 300, 1000))
  IN  WithY(combined, Max(combined.y, 50))

\* handleBounce: "if (this.velocity.length() < 2.0) handleConversionToRolling"
rollIfSlow(b, t, normal) ==
  IF Length(b.velocity) < 2000 THEN handleConversionToRolling(b, t, normal)
  ELSE b

\* handleBounce: shots almost directly into flat terrain generate spin
spinFromDescent(b, normal, impactAngle) ==
  IF b.velocity.y < 0 - 100 /\ normal.y > 700 /\ impactAngle > 785
     /\ Abs(b.velocity.y) > 1000
  THEN [b EXCEPT !.spin = Max(0 - maxSpinRate,
                              0 - MulDiv(Abs(b.velocity.y), 400, 1000))]
  ELSE b

\* handleBounce, normal bounce: the energy loss from the material, the impact
\* speed and the slope
energyLoss(speed, normal, surfaceType) ==
  LET velocityFactor == 1000 - Quot(speed * velocityRestitutionFactor, 1000)
      baseEnergyLoss == getEnergyLoss(surfaceType)
      slopeFactor == 1000 - Abs(normal.y)
  IN  MulDiv(baseEnergyLoss, velocityFactor, 1000)
      + MulDiv(slopeFactor, slopeEnergyLoss, 1000)

\* handleBounce, normal bounce: Math.max(0.1, 1 - energyLoss)
effectiveRestitution(speed, normal, surfaceType) ==
  Max(100, 1000 - energyLoss(speed, normal, surfaceType))

\* handleBounce, normal bounce: effectiveRestitution * randomFactor
keptFraction(speed, normal, surfaceType, r) ==
  MulDiv(effectiveRestitution(speed, normal, surfaceType),
         RandomFactor(r, randomBounceVariation), 1000)

\* handleBounce, normal bounce: the reflection vector after energy absorption
reflected(v, normal, speed, impactAngle, kept) ==
  LET normalComponent == VScale(normal, DotUnit(v, normal), 1000)
      reflection ==
        IF impactAngle < 785                                \* Math.PI * 0.25
        THEN VSub(v, VScale(normalComponent, 1800, 1000))
        ELSE VSub(v, VScale(normalComponent, 2000, 1000))
  IN  IF speed < 2000
      THEN VScale(reflection, MulDiv(kept, 700, 1000), 1000)
      ELSE VScale(reflection, kept, 1000)

\* handleBounce, normal bounce: the new spin and velocity are set; a low
\* bounce ends the flight
rebound(b, newSpin, scaled) ==
  LET low == scaled.y > 0 /\ scaled.y < minBounceVelocity
  IN  [b EXCEPT !.spin = newSpin,
                !.velocity = IF low THEN WithY(scaled, 0) ELSE scaled,
                !.inAir = IF low THEN FALSE ELSE @]

\* the velocity and the normal that a bounce was computed from
Impacted(b, v, normal) ==
  [b EXCEPT !.bounce.velocity = v, !.bounce.normal = normal]

\* the reflection vector of a normal bounce, after energy absorption
Reflected(b, scaled) == [b EXCEPT !.bounce.reflection = scaled]

\* handleBounce: Math.acos(Math.abs(velocityUnit.dot(normal)))
impactAngleOf(v, normal) == Acos(Abs(DotUnit(Normalize(v), normal)))

\* handleBounce, normal bounce; b1 is the ball after spinFromDescent
standardBounce(b1, t, s, normal, r, speed, impactAngle) ==
  Reflected(
  Impacted(
  Noted(applyPostBounceStabilization(
          rebound(b1,
                  updateSpinFromImpact(b1, Normalize(b1.velocity), normal,
                                       impactAngle, getSurfaceType(b1, t, s)),
                  reflected(b1.velocity, normal, speed, impactAngle,
                            keptFraction(speed, normal,
                                         getSurfaceType(b1, t, s), r)))),
        "standard", speed),
  b1.velocity, normal),
  reflected(b1.velocity, normal, speed, impactAngle,
            keptFraction(speed, normal, getSurfaceType(b1, t, s), r)))

\* handleBounce once the speed and the impact angle are known
bounceAt(b, t, s, normal, r, speed, impactAngle) ==
  IF impactAngle < 262 /\ normal.y > 800                   \* Math.PI / 12
  THEN Impacted(
         Noted(rollIfSlow([b EXCEPT !.velocity = skimVelocity(@, normal)],
                          t, normal),
               "skim", speed),
         b.velocity, normal)
  ELSE IF normal.y > 900 /\ Abs(b.velocity.y) < 1000 /\ speed < 5000
  THEN Impacted(
         Noted(handleConversionToRolling(spinFromDescent(b, normal, impactAngle),
                                         t, normal),
               "roll", speed),
         b.velocity, normal)
  ELSE standardBounce(spinFromDescent(b, normal, impactAngle), t, s, normal,
                      r, speed, impactAngle)

\* where the ball was when handleBounce was called, and with which normal
Touched(b, at, normal) == [b EXCEPT !.bounce.at = at, !.bounce.normal = normal]

\* handleBounce(normal, dt); r is the Math.random() draw of the bounce
handleBounce(b, t, s, normal, r) ==
  Touched(IF LengthSq(b.velocity) < 1000
          THEN Noted([b EXCEPT !.inAir = FALSE, !.velocity = Zero], "still",
                     Length(b.velocity))
          ELSE bounceAt(b, t, s, normal, r, Length(b.velocity),
                        impactAngleOf(b.velocity, normal)),
          b.position, normal)

\* checkContinuousCollision: the ball is moved off the intersection point
\* along the normal and bounces
collideWith(b, t, s, r, intersection) ==
  IF intersection.hit
  THEN [handled |-> TRUE,
        ball |-> handleBounce(
                   [b EXCEPT !.position =
                      VAdd(intersection.point,
                           VScale(intersection.normal, radius + safeOffset, 1000))],
                   t, s, intersection.normal, r)]
  ELSE [handled |-> FALSE, ball |-> b]

\* checkContinuousCollision without the check of an embedded start position
checkContinuousCollision_rayOnly(b, t, s, endPos, r) ==
  collideWith(b, t, s, r,
              intersectObject(t, b.position,
                              Normalize(VSub(endPos, b.position)),
                              Length(VSub(endPos, b.position)) + radius))

\* checkContinuousCollision(startPos, endPos, dt), called with
\* startPos = this.position: whether a collision was handled, and the state
checkContinuousCollision(b, t, s, endPos, r) ==
  LET startTerrainHeight == getHeightAtPosition(t, b.position.x, b.position.z)
  IN
  IF b.position.y - radius < startTerrainHeight
  THEN \* already embedded
    [handled |-> TRUE,
     ball |-> handleBounce(
                [b EXCEPT !.position =
                   WithY(@, startTerrainHeight + radius + clearance)],
                t, s, getNormalAtPosition(t, b.position.x, b.position.z), r)]
  ELSE
    collideWith(b, t, s, r,
                intersectObject(t, b.position,
                                Normalize(VSub(endPos, b.position)),
                                Length(VSub(endPos, b.position)) + radius))

\* checkGroundCollision(dt) that lets a grounded ball take off where the
\* terrain is 0.1 or more below it
checkGroundCollision_takesOff(b, t, s, r) ==
  LET terrainHeight == getHeightAtPosition(t, b.position.x, b.position.z)
      ballBottomHeight == b.position.y - radius
      onGround == WithY(b.position, terrainHeight + radius + clearance)
  IN
  IF ballBottomHeight <= terrainHeight
  THEN
    LET impactSpeed == Abs(b.velocity.y)
    IN  IF impactSpeed < 500 /\ LengthSq(b.velocity) < 4000000
        THEN [b EXCEPT !.position = onGround,
                       !.velocity = Vec(MulDiv(b.velocity.x, 900, 1000), 0,
                                        MulDiv(b.velocity.z, 900, 1000)),
                       !.inAir = FALSE,
                       !.lastSafePosition = onGround]
        ELSE
          handleBounce([b EXCEPT !.position = onGround], t, s,
                       getNormalAtPosition(t, b.position.x, b.position.z), r)
  ELSE IF ~b.inAir /\ ballBottomHeight > terrainHeight
                   /\ ballBottomHeight < terrainHeight + 100
  THEN [b EXCEPT !.position = onGround, !.velocity = WithY(b.velocity, 0)]
  ELSE [b EXCEPT !.inAir = TRUE]

\* checkGroundCollision(dt)
checkGroundCollision(b, t, s, r) ==
  LET terrainHeight == getHeightAtPosition(t, b.position.x, b.position.z)
      ballBottomHeight == b.position.y - radius
      onGround == WithY(b.position, terrainHeight + radius + clearance)
  IN
  IF ballBottomHeight <= terrainHeight
  THEN
    LET impactSpeed == Abs(b.velocity.y)
    IN  IF impactSpeed < 500 /\ LengthSq(b.velocity) < 4000000
        THEN \* gentle landing
          [b EXCEPT !.position = onGround,
                    !.velocity = Vec(MulDiv(b.velocity.x, 900, 1000), 0,
                                     MulDiv(b.velocity.z, 900, 1000)),
                    !.inAir = FALSE,
                    !.lastSafePosition = onGround]
        ELSE
          handleBounce([b EXCEPT !.position = onGround], t, s,
                       getNormalAtPosition(t, b.position.x, b.position.z), r)
  ELSE IF ~b.inAir /\ ballBottomHeight > terrainHeight
                   /\ ballBottomHeight < terrainHeight + 100
  THEN [b EXCEPT !.position = onGround, !.velocity = WithY(b.velocity, 0)]
  ELSE b

---------------------------------------------------------------------------
(* GolfBall: rolling and friction *)

\* calculateSlopeAtPosition, from the normal at the ball
slopeOf(normal) ==
  [normal |-> normal,
   angle |-> Acos(normal.y),
   gradient |-> Vec(Quot((0 - normal.x) * 1000, Max(100, normal.y)), 0,
                    Quot((0 - normal.z) * 1000, Max(100, normal.y)))]

\* calculateSlopeAtPosition(): normal, gradient (x, z) and angle
calculateSlopeAtPosition(b, t) ==
  slopeOf(getNormalAtPosition(t, b.position.x, b.position.z))

\* applySlopeForces(slopeData, dt): the new velocity
applySlopeForces(b, slopeData, dt) ==
  IF slopeData.angle < 10 THEN b.velocity
  ELSE
    LET gradient == slopeData.gradient
        sinAngle == Sqrt(1000000 - slopeData.normal.y * slopeData.normal.y)
        slopeForceMagnitude ==
          MulDiv(MulDiv(Quot(mass * gravity, 1000), sinAngle, 1000),
                 slopeGravityFactor, 1000)
        pushed == Vec(b.velocity.x
                        + MulDiv(MulDiv(gradient.x, slopeForceMagnitude, 1000), dt, 1000000),
                      b.velocity.y,
                      b.velocity.z
                        + MulDiv(MulDiv(gradient.z, slopeForceMagnitude, 1000), dt, 1000000))
        currentDirection == Normalize(WithY(pushed, 0))
        dotProduct == DotUnit(currentDirection, Normalize(gradient))
        uphillResistance ==
          MulDiv(MulDiv(MulDiv(Abs(dotProduct), slopeData.angle, 1000), 500, 1000),
                 dt, 1000000)
    IN  IF dotProduct < 0 - 200
        THEN VScale(pushed, Max(0, 1000 - uphillResistance), 1000)
        ELSE pushed

\* applyGroundFriction(dt, speed, frictionFactors): the new velocity; r is
\* the Math.random() draw.  The friction magnitude is kept in parts per
\* million, the products with the speed are truncated toward zero.
applyGroundFriction(b, dt, speed, frictionFactors, r) ==
  LET randomVariation == RandomFactor(r, frictionVariation)
      isRolling == speed < 3000 /\ ~b.inAir
      frictionBase ==
        IF isRolling
        THEN MulDiv(MulDiv(frictionFactors.base, frictionFactors.rolling, 1000),
                    rollingFrictionMultiplier, 1000)
        ELSE frictionFactors.base
      lowSpeedEffect ==
        IF speed < 500
        THEN Quot(frictionFactors.lowSpeed * 2500, Max(100, speed))
        ELSE Max(1000, Quot(frictionFactors.lowSpeed * 1000, Max(500, speed)))
      frictionMagnitude ==
        MulDiv(MulDiv(MulDiv(frictionBase, lowSpeedEffect, 1000),
                      randomVariation, 1000),
               dt \div 100, 10)
      after ==
        IF isRolling /\ speed > 200
        THEN
          LET currentDir == Normalize(WithY(b.velocity, 0))
              slowdownFactor == Max(0, 1000000 - frictionMagnitude)
              lost == MulDiv(1000000 - slowdownFactor, 1000 - rollingInertia, 1000)
              newSpeed == speed - CeilDiv(speed * lost, 1000000)
          IN  IF newSpeed > 10
              THEN Vec(MulDiv(currentDir.x, newSpeed, 1000), 0,
                       MulDiv(currentDir.z, newSpeed, 1000))
              ELSE Zero
        ELSE
          IF frictionMagnitude >= speed * 1000 \/ speed < 50
          THEN Zero
          ELSE LET frictionForce ==
                     VScale(Normalize(b.velocity), 0 - frictionMagnitude, 1000000)
               IN  WithY(VAdd(b.velocity, frictionForce), 0)
  IN  IF LengthSq(after) < 1000 THEN Zero ELSE after

\* applyFriction: a ball below the terrain is put back on it
liftOntoTerrain(b, t) ==
  LET terrainHeight == getHeightAtPosition(t, b.position.x, b.position.z)
  IN  IF b.position.y - radius < terrainHeight
      THEN [b EXCEPT !.position = WithY(@, terrainHeight + radius + clearance)]
      ELSE b

\* applyFriction: ground friction at the speed measured before the slope
\* forces, and the count of slow frames
slowDown(b, dt, speed, frictionFactors, r) ==
  [b EXCEPT
     !.velocity = applyGroundFriction(b, dt, speed, frictionFactors, r),
     !.stationaryFrames = IF speed < stopThreshold THEN @ + 1 ELSE 0]

\* applyFriction once the ball is on the terrain
rub(b, t, s, dt, r) ==
  IF LengthSq(b.velocity) < 100
  THEN [b EXCEPT !.velocity = Zero]
  ELSE slowDown([b EXCEPT !.velocity =
                   applySlopeForces(b, calculateSlopeAtPosition(b, t), dt)],
                dt, Length(b.velocity),
                getSurfaceFrictionFactors(getSurfaceType(b, t, s)), r)

\* applyFriction(dt)
applyFriction(b, t, s, dt, r) == rub(liftOntoTerrain(b, t), t, s, dt, r)

---------------------------------------------------------------------------
(* GolfBall: one physics step *)

\* applySpinEffects: backspin and topspin act on a grounded ball and on
\* an airborne ball near the ground
liftAndDrag(b, dt, nearGround, horizontalVelocity) ==
  LET liftForce == 0 - MulDiv(b.spin * 3, dt, 1000000)
      horizontalForce == 0 - MulDiv(MulDiv(b.spin, 1800, 1000), dt, 1000000)
  IN  IF (b.inAir /\ nearGround) \/ ~b.inAir
      THEN Vec(b.velocity.x + MulDiv(horizontalVelocity.x, horizontalForce, 1000),
               b.velocity.y + liftForce,
               b.velocity.z + MulDiv(horizontalVelocity.z, horizontalForce, 1000))
      ELSE b.velocity

\* applySpinEffects: side spin curves the flight of an airborne ball; v is
\* the velocity after liftAndDrag
curve(b, dt, horizontalVelocity, v) ==
  LET sideForce == 0 - MulDiv(MulDiv(b.sidespin, 800, 1000), dt, 1000000)
  IN  IF b.inAir /\ Abs(b.sidespin) > 100
      THEN Vec(v.x + MulDiv(0 - horizontalVelocity.z, sideForce, 1000),
               IF b.sidespin > 0
               THEN v.y - MulDiv(MulDiv(Abs(b.sidespin), 300, 1000), dt, 1000000)
               ELSE IF b.sidespin < 0 /\ v.y > 0
               THEN v.y + MulDiv(MulDiv(Abs(b.sidespin), 150, 1000), dt, 1000000)
               ELSE v.y,
               v.z + MulDiv(horizontalVelocity.x, sideForce, 1000))
      ELSE v

\* applySpinEffects, the forces on a ball that moves horizontally
spinForces(b, dt, nearGround, horizontalVelocity) ==
  curve(b, dt, horizontalVelocity,
        liftAndDrag(b, dt, nearGround, horizontalVelocity))

\* applySpinEffects(dt, nearGround)
applySpinEffects(b, dt, nearGround) ==
  IF Abs(b.spin) < 100 /\ Abs(b.sidespin) < 100 THEN b
  ELSE [b EXCEPT
          !.velocity = IF Length(WithY(@, 0)) > 100
                       THEN spinForces(b, dt, nearGround, Normalize(WithY(@, 0)))
                       ELSE @,
          !.sidespin = IF @ = 0 THEN 0
                       ELSE IF b.inAir THEN MulDiv(@, spinDecay, 1000)
                       ELSE MulDiv(@, MulDiv(spinDecay, 800, 1000), 1000)]

\* checkOutOfBounds() that resets to the tee: "this.reset()"
checkOutOfBounds_toTee(b, t) ==
  IF 2 * Abs(b.position.x) > Width \/ 2 * Abs(b.position.z) > Width
     \/ b.position.y < minY
  THEN reset([b EXCEPT !.recovery = [done |-> TRUE, from |-> b.position,
                                     to |-> b.lastSafePosition]],
             t, NoPosition)
  ELSE b

\* checkOutOfBounds()
checkOutOfBounds(b, t) ==
  IF 2 * Abs(b.position.x) > Width \/ 2 * Abs(b.position.z) > Width
     \/ b.position.y < minY
  THEN reset([b EXCEPT !.recovery = [done |-> TRUE, from |-> b.position,
                                     to |-> b.lastSafePosition]],
             t, b.lastSafePosition)
  ELSE b

\* checkBallStop() that restarts the count of slow frames instead of
\* advancing it, so that the count never passes minimumStopFrames
checkBallStop_restartsCount(b, t) ==
  LET terrainHeight == getHeightAtPosition(t, b.position.x, b.position.z)
      onGround == WithY(b.position, terrainHeight + radius + clearance)
  IN
  IF b.inAir
  THEN IF LengthSq(b.velocity) < 100000
          /\ b.position.y - radius < terrainHeight + 20
       THEN [b EXCEPT !.position = onGround,
                      !.velocity = WithY(b.velocity, 0),
                      !.inAir = FALSE]
       ELSE b
  ELSE [b EXCEPT !.stationaryFrames = 0]

\* checkBallStop()
checkBallStop(b, t) ==
  LET terrainHeight == getHeightAtPosition(t, b.position.x, b.position.z)
      onGround == WithY(b.position, terrainHeight + radius + clearance)
  IN
  IF b.inAir
  THEN IF LengthSq(b.velocity) < 100000
          /\ b.position.y - radius < terrainHeight + 20
       THEN [b EXCEPT !.position = onGround,
                      !.velocity = WithY(b.velocity, 0),
                      !.inAir = FALSE]
       ELSE b
  ELSE IF Length(b.velocity) < stopThreshold
  THEN IF b.stationaryFrames + 1 > minimumStopFrames
       THEN [b EXCEPT !.stationaryFrames = @ + 1,
                      !.position = onGround,
                      !.velocity = Zero,
                      !.spin = 0,
                      !.isResting = TRUE,
                      !.lastSafePosition = onGround]
       ELSE [b EXCEPT !.stationaryFrames = @ + 1]
  ELSE [b EXCEPT !.stationaryFrames = 0]

\* performPhysicsStep: v = v0 + a t with a = gravity
applyGravity(b, dt) ==
  [b EXCEPT !.velocity = WithY(@, @.y - MulDiv(gravity, dt, 1000000)),
            !.bounce = NoBounce,
            !.recovery = NoRecovery]

\* performPhysicsStep: spin acts on an airborne ball and on a spinning one
spinStage(b, dt, nearGround) ==
  IF b.inAir \/ Abs(b.spin) > 100 THEN applySpinEffects(b, dt, nearGround)
  ELSE b

\* performPhysicsStep: the speed limiter
limitSpeed(b) ==
  IF Length(b.velocity) > maxVelocity
  THEN [b EXCEPT !.velocity = VScale(@, maxVelocity, Length(@))]
  ELSE b

\* performPhysicsStep: the outcome of the continuous check, or else the
\* snapped new position and the backup ground check
place(b, t, s, r, newPosition, ccd) ==
  IF ccd.handled THEN ccd.ball
  ELSE checkGroundCollision(
         [b EXCEPT !.position = Vec(RoundTo(newPosition.x, positionPrecision),
                                    RoundTo(newPosition.y, positionPrecision),
                                    RoundTo(newPosition.z, positionPrecision))],
         t, s, r)

\* performPhysicsStep: p = p0 + v t and the collision checks
integrate(b, t, s, dt, r) ==
  place(b, t, s, r, VAdd(b.position, VScale(b.velocity, dt, 1000000)),
        checkContinuousCollision(
          b, t, s, VAdd(b.position, VScale(b.velocity, dt, 1000000)), r))

\* performPhysicsStep: friction on a grounded ball
frictionStage(b, t, s, dt, r) ==
  IF ~b.inAir THEN applyFriction(b, t, s, dt, r) ELSE b

\* performPhysicsStep: a slow airborne ball that was near the ground at the
\* start of the step is forced to ground, at the height queried at the start
forceToGround(b, terrainHeight, nearGround) ==
  IF b.inAir /\ nearGround /\ LengthSq(b.velocity) < 1000000
  THEN [b EXCEPT !.position = WithY(@, terrainHeight + radius),
                 !.velocity = WithY(@, 0),
                 !.inAir = FALSE]
  ELSE b

\* performPhysicsStep: spin decay, faster on the ground
decaySpin(b) ==
  [b EXCEPT !.spin = IF b.inAir THEN MulDiv(@, spinDecay, 1000)
                     ELSE MulDiv(@, MulDiv(spinDecay, 900, 1000), 1000)]

\* performPhysicsStep from the spin effects on; pulled is the ball after
\* gravity
stepNear(pulled, t, s, dt, r, terrainHeight, nearGround) ==
  checkBallStop(
    decaySpin(
      checkOutOfBounds(
        forceToGround(
          frictionStage(
            integrate(
              limitSpeed(spinStage(pulled, dt, nearGround)),
              t, s, dt, r),
            t, s, dt, r),
          terrainHeight, nearGround),
        t)),
    t)

\* performPhysicsStep(dt); r is the value of the Math.random() draws
performPhysicsStep(b, t, s, dt, r) ==
  stepNear(applyGravity(b, dt), t, s, dt, r,
           getHeightAtPosition(t, b.position.x, b.position.z),
           b.position.y - radius
             - getHeightAtPosition(t, b.position.x, b.position.z) < 100)

\* The sub-steps of update: the states after each performPhysicsStep(subDt),
\* stopping early once the ball rests ("if (this.isResting) break")
RECURSIVE substeps(_, _, _, _, _, _)

\* the state after one sub-step, followed by the remaining sub-steps
thenSubsteps(next, t, s, subDt, r, n) ==
  IF next.isResting THEN <<next>>
  ELSE <<next>> \o substeps(next, t, s, subDt, r, n)

substeps(b, t, s, subDt, r, n) ==
  IF n = 0 THEN << >>
  ELSE thenSubsteps(performPhysicsStep(b, t, s, subDt, r), t, s, subDt, r, n - 1)

\* the number of sub-steps without the limit maxSubsteps
numSubsteps_unlimited(speed) ==
  IF speed > tunnelThreshold THEN CeilDiv(speed, 5000) ELSE 1

\* update: "Math.min(Math.ceil(this.velocity.length() / 5), maxSubsteps)"
\* above the tunnel threshold, one step below it
numSubsteps(speed) ==
  IF speed > tunnelThreshold THEN Min(CeilDiv(speed, 5000), maxSubsteps) ELSE 1

\* update(deltaTime) without "if (this.isResting) return"
update_unguarded(b, t, s, deltaTime, r) ==
  LET entered == [b EXCEPT !.previousPosition = b.position,
                  !.bounce = NoBounce, !.recovery = NoRecovery]
      n == numSubsteps(Length(b.velocity))
  IN  <<entered>> \o substeps(entered, t, s, Quot(Min(deltaTime, maxDt), n), r, n)

\* update(deltaTime) with "Math.min(deltaTime, 0.1)" for the cap of the time
update_cappedAtTenth(b, t, s, deltaTime, r) ==
  IF b.isResting THEN << >>
  ELSE
    LET entered == [b EXCEPT !.previousPosition = b.position,
                  !.bounce = NoBounce, !.recovery = NoRecovery]
        n == numSubsteps(Length(b.velocity))
    IN  <<entered>> \o substeps(entered, t, s, Quot(Min(deltaTime, 100000), n), r, n)

\* update(deltaTime): the state at entry (after previousPosition is stored)
\* followed by the states after each sub-step; << >> when the ball rests
update(b, t, s, deltaTime, r) ==
  IF b.isResting THEN << >>
  ELSE
    LET entered == [b EXCEPT !.previousPosition = b.position,
                  !.bounce = NoBounce, !.recovery = NoRecovery]
        n == numSubsteps(Length(b.velocity))
    IN  <<entered>> \o substeps(entered, t, s, Quot(Min(deltaTime, maxDt), n), r, n)

---------------------------------------------------------------------------
(* Inputs of the operations *)

\* the arguments of hit: power, aim direction, loft in degrees, side spin
HitInputs ==
  { [power |-> 100, direction |-> Vec(1000, 0, 0), loft |-> 0, sidespin |-> 1000],
    [power |-> 40, direction |-> Vec(1000, 0, 0), loft |-> 45, sidespin |-> 0],
    [power |-> 3, direction |-> Vec(0 - 1000, 0, 0), loft |-> 45, sidespin |-> 0] }
Randoms == {0, 999}                    \* Math.random() is in [0, 1)
FrameTimes == {1000000}                \* deltaTime of the game loop
\* the argument of reset: a drop from high up near the edge, a point inside
\* the ground, and no argument (back to the tee)
ResetPositions(t) ==
  {Vec(1000 - Width \div 2, HighStart, 0), Vec(0, 0, 0), NoPosition}

---------------------------------------------------------------------------
(* The operations on the ball *)

SetBall(b) ==
  /\ position' = b.position
  /\ previousPosition' = b.previousPosition
  /\ velocity' = b.velocity
  /\ spin' = b.spin
  /\ sidespin' = b.sidespin
  /\ isResting' = b.isResting
  /\ inAir' = b.inAir
  /\ inWaterHazard' = b.inWaterHazard
  /\ stationaryFrames' = b.stationaryFrames
  /\ lastSafePosition' = b.lastSafePosition

\* new Game(): the fields the constructor sets.  timers holds the pending
\* setTimeout callbacks with the time left until they are due; passed lists
\* the states setGameState went through during the last handler and hitBall
\* tells whether the last handler ran Game.hitBall and what ball.hit returned.
Constructed ==
  [version |-> "src/game.js", gameState |-> "TITLE", score |-> 0,
   strokes |-> 0, cameraTransitionTime |-> 0,
   powerMeter |-> [active |-> FALSE, power |-> 0, direction |-> 1],
   isPaused |-> FALSE, firstHit |-> TRUE, timers |-> << >>,
   passed |-> << >>, hitBall |-> "none", resets |-> 0]

\* new GolfBall(terrain)
Init ==
  /\ terrain \in Terrains
  /\ surface \in (IF terrain = "flat" THEN Materials ELSE {"rough"})
  /\ position = Zero
  /\ previousPosition = Zero
  /\ velocity = Zero
  /\ spin = 0
  /\ sidespin = 0
  /\ isResting = TRUE
  /\ inAir = FALSE
  /\ inWaterHazard = FALSE
  /\ lastSafePosition = Zero
  /\ stationaryFrames = 0
  /\ rnd = 0
  /\ frame = 1000000
  /\ shots = 0
  /\ tick = 0
  /\ op = [name |-> "new", ret |-> "void"]
  /\ game = Constructed
  /\ trace = << >>

\* ball.hit(power, direction, loft, sidespin)
Struck(h, in, r, f) ==
  /\ SetBall(h.ball)
  /\ rnd' = IF h.ret THEN r ELSE rnd
  /\ frame' = IF h.ret THEN f ELSE frame
  /\ shots' = IF h.ret THEN shots + 1 ELSE shots
  /\ tick' = IF h.ret THEN 0 ELSE tick
  /\ op' = IF h.ret
           THEN [name |-> "hit", ret |-> "true", power |-> in.power,
                 direction |-> in.direction, loft |-> in.loft]
           ELSE [name |-> "hit", ret |-> "false"]
  /\ trace' = << >>
  /\ UNCHANGED <<terrain, surface, game>>

Hit ==
  \E in \in HitInputs, r \in Randoms, f \in FrameTimes :
    /\ ~isResting \/ shots < MaxShots
    /\ Struck(hit(Ball, terrain, in.power, in.direction, in.loft, in.sidespin,
                  r, r),
              in, r, f)

\* ball.update(deltaTime)
Updated(states) ==
  /\ SetBall(IF states = << >> THEN Ball ELSE states[Len(states)])
  /\ tick' = IF isResting THEN tick ELSE 1 - tick
  /\ op' = [name |-> "update", ret |-> "void"]
  /\ trace' = states
  /\ UNCHANGED <<terrain, surface, rnd, frame, shots, game>>

Update == Updated(update(Ball, terrain, surface, frame, rnd))

\* ball.reset(position) and ball.reset()
Reset ==
  \E p \in ResetPositions(terrain) :
    /\ SetBall(reset(Ball, terrain, p))
    /\ shots' = 0
    /\ tick' = 0
    /\ op' = [name |-> "reset", ret |-> "void", arg |-> p,
               from |-> [isResting |-> isResting, inAir |-> inAir]]
    /\ trace' = << >>
    /\ UNCHANGED <<terrain, surface, rnd, frame, game>>

\* ball.handleWaterHazard()
HandleWaterHazard ==
  /\ SetBall(handleWaterHazard(Ball, terrain))
  /\ op' = [name |-> "handleWaterHazard", ret |-> "void"]
  /\ trace' = << >>
  /\ UNCHANGED <<terrain, surface, rnd, frame, shots, tick, game>>

Next == Hit \/ Update \/ Reset \/ HandleWaterHazard

Spec == Init /\ [][Next]_vars

---------------------------------------------------------------------------
(* Properties *)

ballVars ==
  <<position, previousPosition, velocity, spin, sidespin, inAir, isResting,
    inWaterHazard, stationaryFrames, lastSafePosition>>

\* the states after the sub-steps of the last update (trace[1] is the entry)
SubstepStates == {trace[i] : i \in 2..Len(trace)}

\* C1: hit called while isResting is false returns false and changes nothing:
\* position, previousPosition, velocity, spin, sidespin, inAir, isResting,
\* inWaterHazard, stationaryFrames and lastSafePosition keep their values.
C1_HitInMotionRejected ==
  [][(~isResting /\ op'.name = "hit")
       => (op'.ret = "false" /\ UNCHANGED ballVars)]_vars

\* a hit was rejected while the ball was flying
C1_Witness ==
  /\ op.name = "hit" /\ op.ret = "false"
  /\ ~isResting /\ inAir /\ velocity # Zero

\* C2: hit on a resting ball returns true and leaves isResting = FALSE and
\* inAir = TRUE; a hit issued before the ball is back at rest returns false.
C2_HitAcceptedOnceUntilRest ==
  [][op'.name = "hit"
       => IF isResting
          THEN op'.ret = "true" /\ ~isResting' /\ inAir'
          ELSE op'.ret = "false" /\ ~isResting']_vars

\* a second hit was rejected after the shot had landed and was still rolling
C2_Witness ==
  /\ op.name = "hit" /\ op.ret = "false"
  /\ shots = 1 /\ ~isResting /\ ~inAir /\ position # lastSafePosition

\* C3: inAir and isResting are never both true, after any sequence of hit,
\* update, reset and handleWaterHazard and after every sub-step of update.
C3_NotAirborneAndResting ==
  /\ ~(inAir /\ isResting)
  /\ \A b \in SubstepStates : ~(b.inAir /\ b.isResting)

\* the rest detector has put a ball to rest that had been hit into the air
C3_Witness ==
  /\ op.name = "update" /\ trace # << >>
  /\ trace[1].inAir = FALSE /\ ~trace[1].isResting
  /\ isResting /\ ~inAir /\ shots = 1

\* the tolerance of the "not below the terrain" property: the clearance the
\* code itself keeps between ball and ground
Epsilon == clearance

\* C4: after every completed update the ball is not below the terrain:
\* position.y - radius >= terrainHeight(position.x, position.z) - Epsilon.
C4_NotBelowTerrain ==
  (op.name = "update" /\ trace # << >>)
    => position.y - radius
         >= getHeightAtPosition(terrain, position.x, position.z) - Epsilon

\* The game loop (animate) calls ball.update on every animation frame, so a
\* ball in motion is always simulated one more frame.  Update has no guard and
\* is the only action that advances tick while the ball moves, so the steps of
\* Frame are exactly the steps of Update on a moving ball.
Frame == ~isResting /\ tick' = 1 - tick

NextPlay == Hit \/ Update

FairSpec == Init /\ [][NextPlay]_vars /\ WF_tick(Frame)

\* C5: with no further hit, a ball that was hit on flat, bounded terrain
\* reaches isResting = TRUE after finitely many update calls, for every
\* material and every value of the random variations.
C5_ComesToRest ==
  (terrain = "flat" /\ ~isResting) ~> isResting

\* a shot on flat terrain that update has put to rest away from the tee
C5_Witness ==
  /\ terrain = "flat" /\ op.name = "update" /\ trace # << >>
  /\ ~trace[1].isResting /\ isResting /\ shots = 1
  /\ stationaryFrames > minimumStopFrames
  /\ position.x # 0

\* C6: whenever isResting is true, velocity is exactly (0,0,0) and both spin
\* and sidespin are exactly 0.
C6_RestingMeansStill ==
  isResting => (velocity = Zero /\ spin = 0 /\ sidespin = 0)

\* C7: reset(p), called in any state, ends with isResting = TRUE, inAir = FALSE,
\* inWaterHazard = FALSE, velocity = 0, spin = 0, sidespin = 0,
\* stationaryFrames = 0, position.y >= terrainHeight(p.x, p.z) + radius and
\* lastSafePosition equal to the new position.
C7_ResetPostcondition ==
  (op.name = "reset" /\ op.arg # NoPosition)
    => /\ isResting /\ ~inAir /\ ~inWaterHazard
       /\ velocity = Zero /\ spin = 0 /\ sidespin = 0
       /\ stationaryFrames = 0
       /\ position.x = op.arg.x /\ position.z = op.arg.z
       /\ position.y >= getHeightAtPosition(terrain, op.arg.x, op.arg.z) + radius
       /\ lastSafePosition = position

\* reset was called with a point inside the ground while the ball was flying
C7_Witness ==
  /\ op.name = "reset" /\ op.arg = Vec(0, 0, 0)
  /\ op.from.inAir /\ ~op.from.isResting
  /\ position.y > op.arg.y

C9_SpinWithinLimit ==
  /\ Abs(spin) <= maxSpinRate /\ Abs(sidespin) <= maxSpinRate
  /\ \A b \in SubstepStates :
       Abs(b.spin) <= maxSpinRate /\ Abs(b.sidespin) <= maxSpinRate

---------------------------------------------------------------------------
\* C11: resting is absorbing under update: an update of a resting ball leaves
\* position, previousPosition, velocity, spin, sidespin, the flags,
\* stationaryFrames and lastSafePosition unchanged, and isResting goes from
\* true to false only in a hit that returns true.
C11_RestingAbsorbing ==
  [][/\ (isResting /\ op'.name = "update") => UNCHANGED ballVars
     /\ (isResting /\ ~isResting') => (op'.name = "hit" /\ op'.ret = "true")]_vars

\* an update was called on a ball that had come to rest after a shot
C11_Witness ==
  /\ op.name = "update" /\ trace = << >>
  /\ isResting /\ shots = 1
  /\ position.x # 0


\* the playable horizontal bounds and the minimum elevation of checkOutOfBounds
OutOfBounds(p) ==
  2 * Abs(p.x) > Width \/ 2 * Abs(p.z) > Width \/ p.y < minY

\* C12: a sub-step whose position is out of bounds resets the ball to
\* lastSafePosition: the update ends with the ball at that position, with
\* velocity zero and isResting true, and no further sub-step is run.
C12_OutOfBoundsRecovery ==
  \A i \in 2..Len(trace) :
    trace[i].recovery.done =>
      /\ OutOfBounds(trace[i].recovery.from)
      /\ i = Len(trace)
      /\ position = trace[i].recovery.to
      /\ velocity = Zero
      /\ isResting

\* an update ended in a recovery from beyond the edge of the terrain, to a
\* safe position that is not the tee
C12_Witness ==
  /\ op.name = "update" /\ trace # << >>
  /\ trace[Len(trace)].recovery.done
  /\ 2 * Abs(trace[Len(trace)].recovery.from.x) > Width
  /\ position.x # teePosition(terrain).x
  /\ isResting


\* a point of the playable area
InsideBounds(p) == 2 * Abs(p.x) <= Width /\ 2 * Abs(p.z) <= Width

\* a ball centred at p does not reach into the terrain
NotEmbedded(t, p) == p.y - radius >= getHeightAtPosition(t, p.x, p.z)

\* the material under p is not water
OffWater(t, s, p) == getSurfaceTypeAtPosition(t, s, p.x, p.z) # "water"

\* C13: lastSafePosition is always a valid recovery point: in every reachable
\* state it lies inside the playable horizontal bounds, is not on terrain of
\* the water material and is not embedded in the terrain.
C13_SafePositionValid ==
  /\ InsideBounds(lastSafePosition)
  /\ OffWater(terrain, surface, lastSafePosition)
  /\ NotEmbedded(terrain, lastSafePosition)


\* C14: handleWaterHazard() called while inWaterHazard is false leaves
\* inWaterHazard true, the position equal to lastSafePosition and the
\* velocity zero; called while the flag is already true it changes nothing.
C14_HazardEntry ==
  [][op'.name = "handleWaterHazard" =>
       IF inWaterHazard THEN UNCHANGED ballVars
       ELSE inWaterHazard' /\ position' = lastSafePosition' /\ velocity' = Zero]_vars


---------------------------------------------------------------------------
(* A terrain whose height query fails *)

\* the value of "terrainHeight + this.options.radius + 0.01" when
\* getHeightAtPosition returns a non-finite height: a non-finite number,
\* written as a value that no coordinate of the model takes
NaN == 0 - 1000000000

\* checkBallStop puts the ball to rest with
\*   position.y = terrainHeight + radius + 0.01
\*   lastSafePosition.copy(position)
\* and nothing runs after it in the update.  When the terrain answers that
\* query with a non-finite height, the update ends as it does otherwise
\* except for the two heights.
restOnFailedQuery(b) ==
  [b EXCEPT !.position = WithY(@, NaN), !.lastSafePosition = WithY(@, NaN)]

\* whether the last sub-step of an update came to rest in checkBallStop
\* (a ball that rests after the out-of-bounds reset did not)
restsInCheckBallStop(states) ==
  /\ states # << >>
  /\ states[Len(states)].isResting
  /\ ~states[Len(states)].recovery.done

\* update(deltaTime) on a terrain that fails at the query of checkBallStop
updateOnFailedQuery(states) ==
  [i \in 1..Len(states) |->
     IF i = Len(states) THEN restOnFailedQuery(states[i]) ELSE states[i]]

\* ball.update(deltaTime) while the terrain fails
UpdateOnFailedQuery ==
  /\ restsInCheckBallStop(update(Ball, terrain, surface, frame, rnd))
  /\ Updated(updateOnFailedQuery(update(Ball, terrain, surface, frame, rnd)))

IsFinite(v) == v.x # NaN /\ v.y # NaN /\ v.z # NaN

\* the operations on a ball whose state is finite, on a terrain that may fail
FaultNext ==
  /\ IsFinite(position)
  /\ (Hit \/ Update \/ Reset \/ HandleWaterHazard \/ UpdateOnFailedQuery)

FaultSpec == Init /\ [][FaultNext]_vars

\* C15: no non-finite value enters the ball state: position, velocity, spin
\* and lastSafePosition are finite after every operation, also when the
\* terrain returns a non-finite height.
C15_StateStaysFinite ==
  /\ IsFinite(position) /\ IsFinite(velocity) /\ IsFinite(lastSafePosition)
  /\ spin # NaN


---------------------------------------------------------------------------
(* The drop scenario: a ball placed in the air above flat terrain *)

DropFrom == 5000             \* height of the bottom of the ball above the terrain
DropSpeed == 10000           \* downward speed

\* the ball as the scenario places it: in flight, 5 above flat terrain of
\* height 0, moving straight down at speed 10; deltaTime is 1
DropInit ==
  /\ terrain = "flat"
  /\ surface \in Materials
  /\ position = Vec(0, DropFrom + radius, 0)
  /\ previousPosition = Vec(0, DropFrom + radius, 0)
  /\ velocity = Vec(0, 0 - DropSpeed, 0)
  /\ spin = 0
  /\ sidespin = 0
  /\ isResting = FALSE
  /\ inAir = TRUE
  /\ inWaterHazard = FALSE
  /\ lastSafePosition = Vec(0, radius + clearance, 0)
  /\ stationaryFrames = 0
  /\ rnd \in Randoms
  /\ frame = 1000000
  /\ shots = MaxShots
  /\ tick = 0
  /\ op = [name |-> "drop", ret |-> "void"]
  /\ game = Constructed
  /\ trace = << >>

DropSpec == DropInit /\ [][Update]_vars

\* an update that was entered in the state of the scenario
FirstUpdateOfDrop ==
  /\ op.name = "update" /\ trace # << >>
  /\ trace[1].position = Vec(0, DropFrom + radius, 0)
  /\ trace[1].velocity = Vec(0, 0 - DropSpeed, 0)
  /\ trace[1].inAir

\* C16: a ball 5 above flat terrain of height 0 that moves down at speed 10
\* is at ground contact after one single update(dt = 1): position.y - radius
\* is within the contact clearance of 0 and not negative.
C16_DropReachesGround ==
  FirstUpdateOfDrop =>
    (position.y - radius >= 0 /\ position.y - radius <= clearance)


\* how far the ball of the scenario falls in the time one update simulates
FallOfOneUpdate == DropFrom - (position.y - radius)

\* C16, as the code has it: update(dt = 1) simulates min(dt, 0.033) only, in
\* min(ceil(speed / 5), 3) = 2 sub-steps, so after one update the ball is
\* still in the air, about 0.33 to 0.35 below where it started;
\* position.y - radius is not negative after this or any later update.
C16_DropFallsOneFrame ==
  /\ op.name = "update" => position.y - radius >= 0
  /\ FirstUpdateOfDrop =>
       /\ inAir /\ ~isResting
       /\ Len(trace) - 1 = Min(CeilDiv(DropSpeed, 5000), 3)
       /\ FallOfOneUpdate >= MulDiv(DropSpeed, maxDt, 1000000)
       /\ FallOfOneUpdate <= MulDiv(DropSpeed, maxDt, 1000000) + 2 * positionPrecision

\* the first update of the scenario has run: two sub-steps of gravity
C16_Witness ==
  /\ FirstUpdateOfDrop
  /\ Len(trace) >= 3
  /\ velocity.y < 0 - DropSpeed
  /\ inAir


---------------------------------------------------------------------------
\* the sub-step from trace[i - 1] to trace[i] counted at most one slow frame
CountsOnce(i) ==
  trace[i].stationaryFrames \in
    {0, trace[i - 1].stationaryFrames, trace[i - 1].stationaryFrames + 1}

\* C17: the rest detector counts consecutive slow sub-steps: stationaryFrames
\* grows by exactly one per sub-step whose speed is below stopThreshold and
\* returns to 0 on a sub-step at or above it, and isResting is set only once
\* the count has passed minimumStopFrames, so never before the 6th
\* consecutive slow sub-step.
C17_RestAfterSixSlowSubsteps ==
  \A i \in 2..Len(trace) :
    ~trace[i].recovery.done =>
      /\ CountsOnce(i)
      /\ (trace[i].isResting /\ ~trace[i - 1].isResting) =>
            trace[i].stationaryFrames > minimumStopFrames
      /\ (~trace[i].inAir /\ ~trace[i - 1].inAir
            /\ Length(trace[i].velocity) >= stopThreshold) =>
            trace[i].stationaryFrames = 0


---------------------------------------------------------------------------
\* C18: update(dt) simulates min(dt, 0.033) seconds: with the same random
\* choices an update with dt > 0.033 does what update(0.033) does.  The time
\* is split into n sub-steps, n = 1 when the speed at entry is at most
\* tunnelThreshold (3) and n = min(ceil(speed / 5), 3) otherwise, so
\* 1 <= n <= 3, and no sub-step runs after isResting has become true.
C18_UpdateSimulatesCappedTime ==
  [][(op'.name = "update" /\ ~isResting) =>
       LET speed == Length(velocity)
           n == IF speed <= 3000 THEN 1 ELSE Min(CeilDiv(speed, 5000), 3)
           ran == Len(trace') - 1
       IN  /\ trace' = update(Ball, terrain, surface, 33000, rnd)
           /\ n \in 1..3
           /\ ran \in 1..n
           /\ ran < n => isResting'
           /\ \A i \in 1..ran : ~trace'[i].isResting]_vars

\* an update with dt = 1 of a ball faster than 10 ran three sub-steps
C18_Witness ==
  /\ op.name = "update" /\ frame > maxDt
  /\ Len(trace) = 4
  /\ Length(trace[1].velocity) > 10000
  /\ ~isResting


---------------------------------------------------------------------------
\* impact speeds below the speed of a bounce, to compare it with
SlowerImpacts(speed) == {v \in {2000, 5000, 10000, 20000, 30000} : v < speed}

\* C19: in a standard bounce the effective restitution does not grow with
\* the impact speed: for the material and the normal of the bounce, a slower
\* impact has an energy loss at most as large and an effective restitution
\* at least as large (before the random variation).
C19_RestitutionFallsWithSpeed ==
  \A b \in SubstepStates :
    b.bounce.kind = "standard" =>
      LET surfaceType == getSurfaceType(b, terrain, surface)
          normal == getNormalAtPosition(terrain, b.position.x, b.position.z)
      IN  \A v \in SlowerImpacts(b.bounce.before) :
            /\ energyLoss(v, normal, surfaceType)
                 <= energyLoss(b.bounce.before, normal, surfaceType)
            /\ effectiveRestitution(v, normal, surfaceType)
                 >= effectiveRestitution(b.bounce.before, normal, surfaceType)


---------------------------------------------------------------------------
\* C20: in a standard bounce, an impact whose velocity opposes the surface
\* normal (the angle between velocity and normal is greater than 90 degrees)
\* generates backspin: the newly generated spin term of updateSpinFromImpact
\* is negative when the ball moves horizontally.
C20_FrontalImpactGivesBackspin ==
  \A b \in SubstepStates :
    (/\ b.bounce.kind = "standard"
     /\ DotUnit(b.bounce.velocity, b.bounce.normal) < 0
     /\ Length(WithY(Normalize(b.bounce.velocity), 0)) > 0) =>
      generatedSpin(Normalize(b.bounce.velocity),
              impactAngleOf(b.bounce.velocity, b.bounce.normal)) < 0

---------------------------------------------------------------------------
(* Skimming contacts *)

\* Math.sin(Math.PI / 12), per mille: a velocity within 15 degrees of the
\* surface has a normal component below this share of its length
Grazing(v, normal) == Abs(DotUnit(Normalize(v), normal)) < 259

\* C21: on a near-level surface (normal.y > 0.8) a contact that bounces takes
\* the skim path exactly when the incoming velocity is within 15 degrees of
\* the surface; a steep or perpendicular impact is not a skim.
C21_SkimOnlyWhenGrazing ==
  \A i \in 2..Len(trace) :
    LET bo == trace[i].bounce
    IN  (bo.kind \in {"skim", "roll", "standard"} /\ bo.normal.y > 800)
          => ((bo.kind = "skim") <=> Grazing(bo.velocity, bo.normal))

---------------------------------------------------------------------------
(* Contacts too weak to bounce *)

\* handleBounce took the direct conversion to rolling, or its normal bounce
\* had a post-bounce vertical velocity in (0, minBounceVelocity)
TooWeakToBounce(bo) ==
  \/ bo.kind = "roll"
  \/ /\ bo.kind = "standard"
     /\ bo.reflection.y > 0
     /\ bo.reflection.y < minBounceVelocity

\* C22 as stated: a contact too weak to bounce (the direct conversion to
\* rolling, or a normal bounce whose vertical velocity is positive but below
\* minBounceVelocity) ends grounded: when handleBounce returns, inAir is
\* false and velocity.y is 0.
C22_WeakContactEndsGrounded ==
  \A i \in 2..Len(trace) :
    TooWeakToBounce(trace[i].bounce)
      => (~trace[i].bounce.airborne /\ trace[i].bounce.left.y = 0)

\* C22: a contact too weak to bounce ends grounded: inAir is false when
\* handleBounce returns, velocity.y is 0 at that point after a clamped normal
\* bounce, and after either case the sub-step ends with inAir false and
\* velocity.y = 0 (the conversion to rolling on a tilted surface leaves a
\* vertical component that the friction of the same sub-step removes).
C22_WeakContactGroundedAtStepEnd ==
  \A i \in 2..Len(trace) :
    TooWeakToBounce(trace[i].bounce)
      => /\ ~trace[i].bounce.airborne
         /\ trace[i].bounce.kind = "standard" => trace[i].bounce.left.y = 0
         /\ ~trace[i].inAir
         /\ trace[i].velocity.y = 0

C22_Witness ==
  \E i \in 2..Len(trace) :
    /\ trace[i - 1].inAir
    /\ TooWeakToBounce(trace[i].bounce)
    /\ trace[i].bounce.left.y = 0
    /\ ~trace[i].isResting

---------------------------------------------------------------------------
(* The grounded ball *)

\* inAir = false and not resting
Grounded(b) == ~b.inAir /\ ~b.isResting

\* position.y = terrain height at the ball's x, z + radius + clearance
OnTerrain(b, t) ==
  b.position.y = getHeightAtPosition(t, b.position.x, b.position.z)
                   + radius + clearance

\* C23: while the ball is grounded (inAir = false and not resting), every
\* sub-step ends with velocity.y = 0 and position.y = terrain height at the
\* ball's new horizontal position + radius + clearance.
C23_GroundedFollowsTerrain ==
  \A i \in 2..Len(trace) :
    Grounded(trace[i]) => (trace[i].velocity.y = 0 /\ OnTerrain(trace[i], terrain))

---------------------------------------------------------------------------
(* Spin decay *)

\* a spin value after one sub-step of geometric decay: times spinDecay in
\* the air, times a strictly smaller factor on the ground
Decayed(old, new, air) ==
  IF air THEN new = MulDiv(old, spinDecay, 1000)
  ELSE Abs(new) <= MulDiv(Abs(old), spinDecay - 1, 1000)

\* a sub-step without a contact or a recovery, airborne or grounded throughout
PlainSubstep(i) ==
  /\ trace[i - 1].inAir = trace[i].inAir
  /\ trace[i].bounce.kind = "none"
  /\ ~trace[i].recovery.done
  /\ ~trace[i].isResting

\* C24: on every sub-step of a moving ball both spin and sidespin decay
\* geometrically: each is multiplied by spinDecay while airborne and by a
\* strictly smaller factor while grounded, also when both magnitudes are
\* below 0.1.
C24_SpinsDecayEverySubstep ==
  \A i \in 2..Len(trace) :
    PlainSubstep(i)
      => /\ Decayed(trace[i - 1].spin, trace[i].spin, trace[i].inAir)
         /\ Decayed(trace[i - 1].sidespin, trace[i].sidespin, trace[i].inAir)

---------------------------------------------------------------------------
(* The velocity of a hit *)

\* the velocity has the given speed and the elevation of the given whole
\* number of degrees above the horizontal, up to 0.2% and 1 mm/s
Launched(v, speed, degrees) ==
  /\ Abs(Length(v) - speed) * 1000 <= 2 * speed + 1000
  /\ Abs(v.y * 1000 - Length(v) * SinDeg(degrees)) <= 2 * Length(v) + 1000

\* C25: after an accepted hit with a horizontal unit aim direction the
\* velocity has magnitude 30 * power / 100 and an elevation above the
\* horizontal equal to the loft argument in degrees, for every loft
\* including 0.
C25_HitVelocityFromPowerAndLoft ==
  (op.name = "hit" /\ op.ret = "true")
    => Launched(velocity, Quot(maxSpeed * op.power, 100), op.loft)

---------------------------------------------------------------------------
(* A ball below the terrain at the start of a sub-step *)

\* position.y - radius < terrain height at the ball's x, z
Embedded(b, t) ==
  b.position.y - radius < getHeightAtPosition(t, b.position.x, b.position.z)

\* C26: a ball below the terrain at the start of a sub-step is corrected in
\* place to terrain height + radius + clearance and handled as a contact
\* with the normal queried at its position; the sub-step completes.
C26_EmbeddedBallCorrectedInPlace ==
  \A i \in 2..Len(trace) :
    Embedded(trace[i - 1], terrain)
      => /\ trace[i].bounce.kind # "none"
         /\ trace[i].bounce.at =
              WithY(trace[i - 1].position,
                    getHeightAtPosition(terrain, trace[i - 1].position.x,
                                        trace[i - 1].position.z)
                      + radius + clearance)
         /\ trace[i].bounce.normal =
              getNormalAtPosition(terrain, trace[i - 1].position.x,
                                  trace[i - 1].position.z)

C26_Witness ==
  \E i \in 2..Len(trace) :
    /\ Embedded(trace[i - 1], terrain)
    /\ trace[i].bounce.kind \in {"skim", "roll", "standard"}
    /\ trace[i].bounce.at.y > trace[i - 1].position.y

---------------------------------------------------------------------------
(* A shot that rolls over the edge of the drop *)

\* a low shot from the tee that lands before the drop of the "step" map and
\* rolls over its edge, and a short one
EdgeInputs ==
  { [power |-> 69, direction |-> Vec(1000, 0, 0), loft |-> 2, sidespin |-> 0],
    [power |-> 3, direction |-> Vec(1000, 0, 0), loft |-> 2, sidespin |-> 0] }

EdgeHit ==
  \E in \in EdgeInputs, r \in Randoms, f \in FrameTimes :
    /\ ~isResting \/ shots < MaxShots
    /\ Struck(hit(Ball, terrain, in.power, in.direction, in.loft, in.sidespin,
                  r, r),
              in, r, f)

EdgeNext == EdgeHit \/ Update \/ Reset \/ HandleWaterHazard

EdgeSpec == Init /\ [][EdgeNext]_vars

\* the operation just performed was a hit that the ball accepted
HitAccepted == op'.name = "hit" /\ op'.ret = "true"

\* C28: inAir becomes true only in an accepted hit, and a resting ball moves
\* again only by one: within an update no sub-step turns a grounded ball
\* airborne or a resting ball moving, also when the ball rolls over a drop,
\* so a shot passes from airborne to grounded to resting and never back.
C28_AirborneOnlyByHit ==
  [][ /\ (inAir' /\ ~inAir) => HitAccepted
      /\ (~isResting' /\ isResting) => HitAccepted
      /\ \A i \in 2..Len(trace') :
           /\ trace'[i].inAir => trace'[i - 1].inAir
           /\ trace'[i - 1].isResting => trace'[i].isResting ]_vars

\* a grounded ball half a metre or more above the terrain
C28_Witness ==
  /\ op.name = "update"
  /\ ~inAir /\ ~isResting
  /\ position.y - radius
       > getHeightAtPosition(terrain, position.x, position.z) + 500


---------------------------------------------------------------------------
(* The Game that owns the ball: src/src/game.js, the class main.js          *)
(* instantiates, and the variant of the same class in src/unnamed/part_006. *)
(* Times are microseconds, the power of the meter is in percent.            *)

par == 3
CAMERA_TRANSITION_DURATION == 1500000
powerMeterSpeed == 50
currentLoft == 10
firstHitPower == 95
firstHitLoft == 30
instructionsDelay == 800000
resetDelay == 3000000
holeDistance == 200
holeHeightDifference == 100
holeRadius == 150
roughHeight == 0

MaxHits == 3             \* calls of Game.hitBall in one run of the game
HoleX == 32810           \* terrain.holePosition.x

AimDirections == {Vec(1000, 0, 0)}     \* cameraController.getAimDirection()

\* terrain.holePosition
holePosition(t) ==
  Vec(HoleX, Max(getHeightAtPosition(t, HoleX, 0), roughHeight + 100), 0)

\* setGameState(state); HOLE_COMPLETE is a state of part_006 only, where
\* READY_TO_HIT stops the ball that was left in the hole
setGameState(w, state) ==
  LET previousState == w.game.gameState
      set == [w EXCEPT !.game.gameState = state,
                       !.game.passed = Append(@, state)]
  IN  IF state = "READY_TO_HIT"
      THEN LET stopped ==
                 IF previousState = "HOLE_COMPLETE"
                 THEN [set EXCEPT !.ball.velocity = Zero,
                                  !.ball.isResting = TRUE]
                 ELSE set
           IN  [stopped EXCEPT !.game.gameState = "AIMING",
                               !.game.passed = Append(@, "AIMING")]
      ELSE set

\* updatePowerMeter()
updatePowerMeter(w, deltaTime) ==
  IF ~w.game.powerMeter.active THEN w
  ELSE LET moved == w.game.powerMeter.power
                    + Quot(w.game.powerMeter.direction * powerMeterSpeed
                           * deltaTime, 1000000)
       IN  IF moved >= 100
           THEN [w EXCEPT !.game.powerMeter.power = 100,
                          !.game.powerMeter.direction = 0 - 1]
           ELSE IF moved <= 0
           THEN [w EXCEPT !.game.powerMeter.power = 0,
                          !.game.powerMeter.direction = 1]
           ELSE [w EXCEPT !.game.powerMeter.power = moved]

\* checkBallInHole()
checkBallInHole(w, t) ==
  LET hole == holePosition(t)
      distanceToHole == Length(VSub(w.ball.position, hole))
      heightDifference == Abs(w.ball.position.y - hole.y)
  IN  IF /\ distanceToHole < holeDistance
         /\ heightDifference < holeHeightDifference
         /\ w.ball.isResting
      THEN [w EXCEPT !.game.score = @ + (w.game.strokes - par),
                     !.game.timers =
                       Append(@, [fn |-> "resetBall", due |-> resetDelay])]
      ELSE w

\* update(): the ball is simulated while the game is WATCHING
watched(w, states) ==
  IF states = << >> THEN w
  ELSE [w EXCEPT !.ball = states[Len(states)], !.states = states]

\* update(): a ball at rest ends WATCHING
rested(w) ==
  IF w.game.gameState = "WATCHING" /\ w.ball.isResting
  THEN [setGameState(w, "CAMERA_TRANSITION") EXCEPT
          !.game.cameraTransitionTime = 0]
  ELSE w

\* update(): the camera transition
cameraTransition(w, t, deltaTime) ==
  IF w.game.gameState # "CAMERA_TRANSITION" THEN w
  ELSE
    LET time == w.game.cameraTransitionTime + deltaTime
        timed == [w EXCEPT !.game.cameraTransitionTime = time]
        terrainHeight ==
          getHeightAtPosition(t, w.ball.position.x, w.ball.position.z)
        lifted ==
          IF w.ball.position.y - radius < terrainHeight
          THEN [timed EXCEPT !.ball.position =
                               WithY(@, terrainHeight + radius + clearance)]
          ELSE timed
    IN  IF time >= CAMERA_TRANSITION_DURATION
        THEN setGameState(lifted, "READY_TO_HIT")
        ELSE timed

\* update(): what follows the simulation of the ball
afterBall(w, t, deltaTime) ==
  checkBallInHole(
    updatePowerMeter(cameraTransition(rested(w), t, deltaTime), deltaTime),
    t)

(* src/src/game.js *)

\* startPowerMeter()
startPowerMeter(w) ==
  setGameState([w EXCEPT !.game.powerMeter =
                           [active |-> TRUE, power |-> 0, direction |-> 1]],
               "HITTING")

\* the end of hitBall(): the stroke is counted whatever ball.hit returned
struck(w, h) ==
  setGameState([w EXCEPT !.ball = h.ball,
                         !.game.firstHit = FALSE,
                         !.game.strokes = @ + 1,
                         !.game.powerMeter.active = FALSE,
                         !.game.hitBall = IF h.ret THEN "true" ELSE "false"],
               "WATCHING")

\* hitBall()
hitBall(w, t, direction, r) ==
  struck(w, hit(w.ball, t,
                IF w.game.firstHit THEN firstHitPower
                ELSE w.game.powerMeter.power,
                direction,
                IF w.game.firstHit THEN firstHitLoft ELSE currentLoft,
                0, r, r))

\* resetBall()
resetBall(w, t) ==
  [w EXCEPT !.ball = reset(w.ball, t, NoPosition),
            !.game.strokes = 0,
            !.game.resets = 1]

\* handleKeyPress(key) where the space bar also hits while WATCHING
handleKeyPress_hitsWhileWatching(w, t, key, direction, r) ==
  IF w.game.isPaused /\ key # "h" THEN w
  ELSE IF key = " "
  THEN IF w.game.gameState = "AIMING" THEN startPowerMeter(w)
       ELSE IF w.game.gameState \in {"HITTING", "WATCHING"}
       THEN hitBall(w, t, direction, r)
       ELSE IF w.game.gameState = "TITLE"
       THEN setGameState(w, "READY_TO_HIT")
       ELSE w
  ELSE IF key = "r"
  THEN IF w.game.gameState = "READY_TO_HIT" THEN resetBall(w, t) ELSE w
  ELSE w

\* handleKeyPress(key)
handleKeyPress(w, t, key, direction, r) ==
  IF w.game.isPaused /\ key # "h" THEN w
  ELSE IF key = " "
  THEN IF w.game.gameState = "AIMING" THEN startPowerMeter(w)
       ELSE IF w.game.gameState = "HITTING" THEN hitBall(w, t, direction, r)
       ELSE IF w.game.gameState = "TITLE"
       THEN setGameState(w, "READY_TO_HIT")
       ELSE w
  ELSE IF key = "r"
  THEN IF w.game.gameState = "READY_TO_HIT" THEN resetBall(w, t) ELSE w
  ELSE w

\* handleMouseDown()
handleMouseDown(w) ==
  IF w.game.isPaused THEN w
  ELSE IF w.game.gameState = "AIMING" THEN startPowerMeter(w)
  ELSE IF w.game.gameState = "TITLE" THEN setGameState(w, "READY_TO_HIT")
  ELSE w

\* handleMouseUp()
handleMouseUp(w, t, direction, r) ==
  IF w.game.gameState = "HITTING" THEN hitBall(w, t, direction, r) ELSE w

\* update()
Game_update(w, t, s, deltaTime, r) ==
  afterBall(watched(w, IF w.game.gameState = "WATCHING"
                       THEN update(w.ball, t, s, deltaTime, r)
                       ELSE << >>),
            t, deltaTime)

(* src/unnamed/part_006 *)

\* startPowerMeter()
Part006_startPowerMeter(w) ==
  IF w.game.powerMeter.active THEN w
  ELSE setGameState([w EXCEPT !.game.powerMeter =
                       [active |-> TRUE, power |-> 0, direction |-> 1]],
                    "HITTING")

\* hitBall()
Part006_hitBall(w, t, direction, r) ==
  IF ~w.game.powerMeter.active THEN [w EXCEPT !.game.hitBall = "skipped"]
  ELSE struck(w, hit(w.ball, t,
                     IF w.game.firstHit THEN firstHitPower
                     ELSE w.game.powerMeter.power,
                     direction,
                     IF w.game.firstHit THEN firstHitLoft ELSE currentLoft,
                     0, r, r))

\* resetBall()
Part006_resetBall(w, t) ==
  [setGameState([w EXCEPT !.ball = reset(w.ball, t, NoPosition),
                          !.game.strokes = 0,
                          !.game.resets = 1],
                "READY_TO_HIT")
   EXCEPT !.game.powerMeter.active = FALSE]

\* handleKeyPress(key)
Part006_handleKeyPress(w, t, key, direction, r) ==
  IF w.game.isPaused THEN w
  ELSE IF key = " "
  THEN IF w.game.gameState = "AIMING"
       THEN IF ~w.game.powerMeter.active
            THEN setGameState(Part006_startPowerMeter(w), "HITTING")
            ELSE w
       ELSE IF w.game.gameState = "HITTING"
       THEN Part006_hitBall(w, t, direction, r)
       ELSE w
  ELSE IF key = "r"
  THEN setGameState(Part006_resetBall(w, t), "AIMING")
  ELSE w

\* handleMouseDown()
Part006_handleMouseDown(w, t, direction, r) ==
  IF w.game.isPaused THEN w
  ELSE IF w.game.gameState = "AIMING"
  THEN setGameState(Part006_startPowerMeter(w), "HITTING")
  ELSE IF w.game.gameState = "HITTING"
  THEN Part006_hitBall(w, t, direction, r)
  ELSE IF w.game.gameState = "TITLE" THEN setGameState(w, "READY_TO_HIT")
  ELSE w

\* handleHoleComplete()
handleHoleComplete(w) ==
  IF w.game.gameState = "HOLE_COMPLETE" THEN w
  ELSE [setGameState(w, "HOLE_COMPLETE") EXCEPT
          !.game.score = @ + (w.game.strokes - par),
          !.game.timers =
            Append(@, [fn |-> "holeComplete", due |-> resetDelay])]

\* update(): terrain.checkBallInHole(ball) slows a ball it finds in the hole
\* and lets it sink, and the game then completes the hole
holed(w, t) ==
  LET hole == holePosition(t)
      p == w.ball.position
      isOverHole == Length(Vec(p.x - hole.x, 0, p.z - hole.z)) < holeRadius
      isAtHoleLevel == p.y <= hole.y + 100 /\ p.y >= hole.y - 300
      isStopped == Length(w.ball.velocity) < 500
  IN  IF w.game.gameState = "WATCHING" /\ isOverHole /\ isAtHoleLevel
         /\ isStopped
      THEN handleHoleComplete(
             [w EXCEPT !.ball.velocity =
                         Vec(Quot(@.x, 2), 0 - 500, Quot(@.z, 2))])
      ELSE w

\* update(): a ball at the level of the water is slowed down and sinks
inWater(w, r) ==
  IF w.game.gameState = "WATCHING" /\ w.ball.position.y <= 100 - 800
  THEN LET slowed == VScale(w.ball.velocity, 950, 1000)
           sinking == WithY(slowed, slowed.y - 50)
       IN  [w EXCEPT !.ball.velocity =
              IF Length(sinking) < 100
              THEN Vec(sinking.x + Quot((r - 500) * 20, 1000),
                       sinking.y - 100,
                       sinking.z + Quot((r - 500) * 20, 1000))
              ELSE sinking]
  ELSE w

\* update()
Part006_update(w, t, s, deltaTime, r) ==
  afterBall(inWater(holed(watched(w, IF w.game.gameState = "WATCHING"
                                      THEN update(w.ball, t, s, deltaTime, r)
                                      ELSE << >>),
                          t),
                    r),
            t, deltaTime)

(* The events of the game *)

\* the ball the constructor of GolfBall leaves
NewBall ==
  [position |-> Zero, previousPosition |-> Zero, velocity |-> Zero,
   spin |-> 0, sidespin |-> 0, isResting |-> TRUE, inAir |-> FALSE,
   inWaterHazard |-> FALSE, stationaryFrames |-> 0,
   lastSafePosition |-> Zero, bounce |-> NoBounce, recovery |-> NoRecovery]

\* the state a handler starts from: the game, the ball, and the states
\* ball.update goes through during the handler
Entered ==
  [game |-> [game EXCEPT !.passed = << >>, !.hitBall = "none", !.resets = 0],
   ball |-> Ball, states |-> << >>]

\* the state an animation frame starts from: the frame time has passed for
\* the pending timers
Ticked ==
  [Entered EXCEPT !.game.timers =
     [i \in 1..Len(@) |-> [@[i] EXCEPT !.due = @ - frame]]]

\* the state a handler leaves
Left(w) ==
  /\ SetBall(w.ball)
  /\ game' = w.game
  /\ trace' = w.states
  /\ shots' = IF w.game.hitBall \in {"true", "false"} THEN shots + 1
              ELSE shots
  /\ tick' = tick
  /\ op' = [name |-> "event", ret |-> "void"]
  /\ UNCHANGED <<terrain, surface, rnd, frame>>

\* init(): the ball is on the tee, the game is AIMING and the instructions
\* are due
GameInit ==
  /\ terrain = "flat"
  /\ surface = "green"
  /\ \E v \in {"src/game.js", "part_006"} :
       game = [setGameState([game |-> [Constructed EXCEPT !.version = v],
                             ball |-> NewBall, states |-> << >>],
                            "READY_TO_HIT").game
               EXCEPT !.passed = << >>,
                      !.timers = <<[fn |-> "showInstructions",
                                    due |-> instructionsDelay]>>]
  /\ position = reset(NewBall, terrain, teePosition(terrain)).position
  /\ previousPosition = Zero
  /\ velocity = Zero
  /\ spin = 0
  /\ sidespin = 0
  /\ isResting = TRUE
  /\ inAir = FALSE
  /\ inWaterHazard = FALSE
  /\ lastSafePosition = position
  /\ stationaryFrames = 0
  /\ rnd \in Randoms
  /\ frame \in FrameTimes
  /\ shots = 0
  /\ tick = 0
  /\ op = [name |-> "init", ret |-> "void"]
  /\ trace = << >>

\* a keydown event
KeyDown ==
  \E key \in {" ", "r"}, direction \in AimDirections :
    /\ shots < MaxHits
    /\ Left(IF game.version = "part_006"
            THEN Part006_handleKeyPress(Entered, terrain, key, direction, rnd)
            ELSE handleKeyPress(Entered, terrain, key, direction, rnd))

\* a mousedown event
MouseDown ==
  \E direction \in AimDirections :
    /\ shots < MaxHits
    /\ Left(IF game.version = "part_006"
            THEN Part006_handleMouseDown(Entered, terrain, direction, rnd)
            ELSE handleMouseDown(Entered))

\* a mouseup event; the handler of part_006 is empty
MouseUp ==
  \E direction \in AimDirections :
    /\ shots < MaxHits
    /\ Left(IF game.version = "part_006" THEN Entered
            ELSE handleMouseUp(Entered, terrain, direction, rnd))

\* animate(): an animation frame, deltaTime after the previous one; timers
\* that are due run before it
AnimationFrame ==
  /\ \A i \in 1..Len(game.timers) : game.timers[i].due > 0
  /\ Left(IF game.version = "part_006"
          THEN Part006_update(Ticked, terrain, surface, frame, rnd)
          ELSE Game_update(Ticked, terrain, surface, frame, rnd))

\* the callback of the timer that is due first
expired(w, t, fn) ==
  IF fn = "showInstructions" THEN [w EXCEPT !.game.isPaused = TRUE]
  ELSE IF w.game.version = "part_006" THEN Part006_resetBall(w, t)
  ELSE resetBall(w, t)

\* a timer set with setTimeout is due and its callback runs
Timeout ==
  /\ game.timers # << >>
  /\ game.timers[1].due <= 0
  /\ Left(expired([Entered EXCEPT !.game.timers = Tail(@)], terrain,
                  game.timers[1].fn))

\* the instructions are dismissed: the listener of 'instructionsDismissed'
InstructionsDismissed ==
  /\ game.isPaused
  /\ Left([Entered EXCEPT !.game.isPaused = FALSE])

GameNext ==
  \/ KeyDown
  \/ MouseDown
  \/ MouseUp
  \/ AnimationFrame
  \/ Timeout
  \/ InstructionsDismissed

GameSpec == GameInit /\ [][GameNext]_vars

---------------------------------------------------------------------------
(* Properties of the Game *)

\* the test of checkBallInHole: the ball rests in the hole
InHole(b, t) ==
  /\ Length(VSub(b.position, holePosition(t))) < holeDistance
  /\ Abs(b.position.y - holePosition(t).y) < holeHeightDifference
  /\ b.isResting

\* the delayed resets that are pending
PendingResets(g) ==
  Cardinality({i \in 1..Len(g.timers) : g.timers[i].fn # "showInstructions"})

\* every state set during a handler is the one it replaces or follows it in
\* the cycle of game states
InCycle(from, passed) ==
  LET path == <<from>> \o passed
      Cycle == { <<"AIMING", "HITTING">>, <<"HITTING", "WATCHING">>,
                 <<"WATCHING", "CAMERA_TRANSITION">>,
                 <<"CAMERA_TRANSITION", "READY_TO_HIT">>,
                 <<"READY_TO_HIT", "AIMING">> }
  IN  \A i \in 1..(Len(path) - 1) :
        path[i] = path[i + 1] \/ <<path[i], path[i + 1]>> \in Cycle

\* C27: the game state follows the cycle AIMING, HITTING, WATCHING,
\* CAMERA_TRANSITION, READY_TO_HIT, AIMING; WATCHING is left only with a
\* ball at rest, CAMERA_TRANSITION only when the camera transition time has
\* reached CAMERA_TRANSITION_DURATION, and Game.hitBall runs only from
\* HITTING, so that no hit starts between the ball coming to rest and the end
\* of the camera transition, whatever keys or buttons are pressed.
C27_GameStateCycle ==
  [][/\ InCycle(game.gameState, game'.passed)
     /\ (game.gameState = "WATCHING" /\ game'.gameState # "WATCHING")
          => isResting'
     /\ (game.gameState = "CAMERA_TRANSITION"
         /\ game'.gameState # "CAMERA_TRANSITION")
          => game'.cameraTransitionTime >= CAMERA_TRANSITION_DURATION
     /\ game'.hitBall \in {"true", "false"} => game.gameState = "HITTING"]_vars

\* C29: whenever Game.hitBall runs the game is HITTING and the ball rests,
\* so ball.hit returns true every time strokes is incremented and the game
\* enters WATCHING; in HITTING the ball always rests.
C29_StrokeOnlyForAcceptedHit ==
  [][/\ game.gameState = "HITTING" => isResting
     /\ game'.hitBall \in {"true", "false"}
          => /\ game.gameState = "HITTING"
             /\ isResting
             /\ game'.hitBall = "true"
             /\ game'.strokes = game.strokes + 1
             /\ game'.gameState = "WATCHING"
     /\ game'.strokes > game.strokes => game'.hitBall = "true"]_vars

\* a stroke is accepted after a delayed reset has put the ball back on the
\* tee, while further delayed resets are still pending
C29_Witness ==
  /\ game.hitBall = "true"
  /\ game.gameState = "WATCHING"
  /\ game.strokes = 1
  /\ shots = MaxHits
  /\ PendingResets(game) > 0

\* C30: a ball that comes to rest in the hole is processed once: the score
\* grows by strokes - par in the frame in which it comes to rest there and not
\* again while it lies there, at most one delayed reset is pending, and a
\* delayed reset only ever resets a ball that lies in the hole.
C30_HoledBallProcessedOnce ==
  [][/\ (InHole(Ball', terrain) /\ ~InHole(Ball, terrain))
          => game'.score = game.score + (game.strokes - par)
     /\ InHole(Ball, terrain) => game'.score = game.score
     /\ PendingResets(game') <= 1
     /\ (PendingResets(game') < PendingResets(game) /\ game'.resets = 1)
          => InHole(Ball, terrain)]_vars

============================================================================
